---- MODULE Spec2Model ----
(***************************************************************************)
(* Model of the DS1307 real-time-clock driver (src/ds1307.py).             *)
(*                                                                         *)
(* The driver object holds two attributes, date and start_time, and talks  *)
(* to the chip through a bridge object (self.board).  The bridge is        *)
(* modelled as the log of the requests the driver dispatched (bus), the    *)
(* number of them the chip has applied (served) and the read reports it    *)
(* produced (responses).  The chip stores every written register byte and  *)
(* does not tick.                                                          *)
(*                                                                         *)
(* An optional value is a sequence: None is <<>>, a present value x is     *)
(* <<x>>.  A timestamp is a record [year, month, day, hour, minute,        *)
(* second].                                                                *)
(***************************************************************************)
EXTENDS Integers, Sequences, FiniteSets

VARIABLES
    date,        \* self.date: None or a timestamp
    start_time,  \* self.start_time: None or a timestamp
    bus,         \* requests dispatched to the bridge, in program order
    served,      \* how many requests of bus the chip has applied
    chip0,       \* the chip's registers 0x00..0x06 when the session opened
    responses,   \* read reports produced by the bridge, with their fate
    call,        \* the last call of a driver method, its arguments and outcome
    adjArg,      \* the argument of an adjust in progress (interleaved runs)
    adjPc,       \* how many i2c_write calls that adjust has made
    cv,          \* codec runs: the input value
    cb,          \* codec runs: dec_to_bcd(cv), once computed
    cd           \* codec runs: bcd_to_dec(cb), once computed

vars == <<date, start_time, bus, served, chip0, responses, call, adjArg, adjPc, cv, cb, cd>>

None == <<>>

Some(x) == <<x>>

\* ---------------------------------------------------------------- bounds

\* The longest request log a run of the driver builds.
MaxBus == 7

\* Codec runs draw their input from 0..MaxIn.
MaxIn == 2200

\* ------------------------------------------------------ class constants

DS1307_ADDRESS == 104

SEC_REG == 0

MIN_REG == 1

HOUR_REG == 2

DOW_REG == 3

DOM_REG == 4

MONTH_REG == 5

YEAR_REG == 6

\* ------------------------------------------------------------ BCD codec

\* A decoder that reads the low nibble as tens (nibbles swapped).
bcd_to_dec_swapped(bcd_val) == (bcd_val % 16) * 10 + ((bcd_val % 256) \div 16)

\* ((bcd_val & 0xF0) >> 4) * 10 + (bcd_val & 0x0F)
bcd_to_dec(bcd_val) == ((bcd_val % 256) \div 16) * 10 + (bcd_val % 16)

\* An encoder that shifts the tens digit by three bits instead of four.
dec_to_bcd_shift3(dec) == (dec \div 10) * 8 + (dec % 10)

\* tens, units = divmod(dec, 10); (tens << 4) + units
dec_to_bcd(dec) == (dec \div 10) * 16 + (dec % 10)

\* --------------------------------------------------- datetime(...) checks

IsLeap(y) == (y % 4 = 0) /\ ((y % 100 # 0) \/ (y % 400 = 0))

DaysInMonth(y, m) ==
    IF m \in {4, 6, 9, 11} THEN 30
    ELSE IF m = 2 THEN (IF IsLeap(y) THEN 29 ELSE 28)
    ELSE 31

\* The argument checks of the datetime constructor: it raises ValueError
\* unless every field is in range.
datetime_ok(f) ==
    /\ f.year \in 1..9999
    /\ f.month \in 1..12
    /\ f.day \in 1..DaysInMonth(f.year, f.month)
    /\ f.hour \in 0..23
    /\ f.minute \in 0..59
    /\ f.second \in 0..59

\* ------------------------------------------------------------- requests

Write(reg, val) == [op |-> "write", addr |-> DS1307_ADDRESS, data |-> <<reg, val>>, cb |-> ""]

\* A write_time that sends the hour to the minutes register and back.
WriteTimeReqsSwapped(hours, minutes, seconds) ==
    << Write(SEC_REG, dec_to_bcd(seconds)),
       Write(MIN_REG, dec_to_bcd(hours)),
       Write(HOUR_REG, dec_to_bcd(minutes)) >>

\* The i2c_write calls of write_time, in program order.
WriteTimeReqs(hours, minutes, seconds) ==
    << Write(SEC_REG, dec_to_bcd(seconds)),
       Write(MIN_REG, dec_to_bcd(minutes)),
       Write(HOUR_REG, dec_to_bcd(hours)) >>

\* A write_date that encodes the four-digit year as it is.
WriteDateReqsFullYear(day, month, year) ==
    << Write(DOM_REG, dec_to_bcd(day)),
       Write(MONTH_REG, dec_to_bcd(month)),
       Write(YEAR_REG, dec_to_bcd(year)) >>

\* The i2c_write calls of write_date, in program order.
WriteDateReqs(day, month, year) ==
    << Write(DOM_REG, dec_to_bcd(day)),
       Write(MONTH_REG, dec_to_bcd(month)),
       Write(YEAR_REG, dec_to_bcd(year % 100)) >>

\* An adjust that sets the time before the date.
AdjustReqsTimeFirst(dt) ==
    WriteTimeReqs(dt.hour, dt.minute, dt.second)
        \o WriteDateReqs(dt.day, dt.month, dt.year)

\* The i2c_write calls of adjust: write_date, then write_time.
AdjustReqs(dt) ==
    WriteDateReqs(dt.day, dt.month, dt.year)
        \o WriteTimeReqs(dt.hour, dt.minute, dt.second)

\* board.i2c_read(DS1307_ADDRESS, 0x00, 7, self.process_data)
ReadReq == [op |-> "read", addr |-> DS1307_ADDRESS, data |-> <<0, 7>>, cb |-> "process_data"]

\* ---------------------------------------------------------- process_data

\* The tuple assignment of process_data takes exactly thirteen elements:
\* five framing fields, seven register bytes and the time stamp.
Unpacks(data) == Len(data) = 13

\* A decoder that takes the year as an offset from 1900.
Fields1900(data) ==
    [ year   |-> bcd_to_dec(data[12]) + 1900,
      month  |-> bcd_to_dec(data[11]),
      day    |-> bcd_to_dec(data[10]),
      hour   |-> bcd_to_dec(data[8]),
      minute |-> bcd_to_dec(data[7]),
      second |-> bcd_to_dec(data[6]) ]

\* The arguments process_data passes to datetime(...); data[9], the
\* day-of-week byte, is unpacked and not used.
Fields(data) ==
    [ year   |-> bcd_to_dec(data[12]) + 2000,
      month  |-> bcd_to_dec(data[11]),
      day    |-> bcd_to_dec(data[10]),
      hour   |-> bcd_to_dec(data[8]),
      minute |-> bcd_to_dec(data[7]),
      second |-> bcd_to_dec(data[6]) ]

\* A start_time that follows every read.
FirstObservedAlways(st, new) == new

\* if self.start_time is None: self.start_time = self.date
FirstObserved(st, new) == IF st = None THEN new ELSE st

\* A handler that stores the decoded fields without building a datetime.
process_data_unchecked(data, d, st) ==
    IF ~Unpacks(data)
    THEN [exc |-> "ValueError", date |-> d, start_time |-> st]
    ELSE [exc |-> "ok", date |-> Some(Fields(data)),
          start_time |-> FirstObserved(st, Some(Fields(data)))]

\* process_data(data) run with self.date = d and self.start_time = st:
\* the exception it ends with, if any, and the two attributes afterwards.
process_data(data, d, st) ==
    IF ~Unpacks(data)
    THEN [exc |-> "ValueError", date |-> d, start_time |-> st]
    ELSE IF ~datetime_ok(Fields(data))
    THEN [exc |-> "ValueError", date |-> d, start_time |-> st]
    ELSE [exc |-> "ok", date |-> Some(Fields(data)),
          start_time |-> FirstObserved(st, Some(Fields(data)))]

\* ------------------------------------------------------ bridge and chip

\* The chip applies a write of one register byte; registers 0x00..0x06 are
\* regs[1]..regs[7].
ApplyReq(regs, req) ==
    IF req.op = "write" /\ req.addr = DS1307_ADDRESS /\ req.data[1] \in 0..6
    THEN [regs EXCEPT ![req.data[1] + 1] = req.data[2] % 256]
    ELSE regs

RECURSIVE ChipAfter(_, _)
ChipAfter(regs, reqs) ==
    IF reqs = <<>> THEN regs
    ELSE ChipAfter(ApplyReq(regs, Head(reqs)), Tail(reqs))

\* The chip's registers once the first k requests of bus are applied.
Regs(k) == ChipAfter(chip0, SubSeq(bus, 1, k))

\* The five framing fields of a read report: command code, port, byte
\* count, device address, register.
Framing == <<10, 0, 7, 104, 0>>

\* The report the bridge hands to the callback of a block read: framing,
\* the bytes read, and the time stamp of the report.
Report(req, regs) ==
    <<10, 0, req.data[2], req.addr, req.data[1]>>
        \o SubSeq(regs, req.data[1] + 1, req.data[1] + req.data[2])
        \o <<0>>

Pending == {i \in DOMAIN responses : responses[i].status = "pending"}

FirstPending == CHOOSE i \in Pending : \A j \in Pending : i <= j

\* ------------------------------------------------------------- inputs

TS1 == [year |-> 2023, month |-> 7, day |-> 4, hour |-> 10, minute |-> 15, second |-> 30]

TS2 == [year |-> 2150, month |-> 12, day |-> 31, hour |-> 23, minute |-> 59, second |-> 59]

\* The datetime values passed to adjust.
Stamps == {TS1, TS2}

\* The (day, month, year) passed to write_date; write_date takes February 30.
Dates == {<<4, 7, 2023>>, <<31, 12, 2150>>, <<30, 2, 2024>>}

\* The (hours, minutes, seconds) passed to write_time.
Times == {<<10, 15, 30>>, <<23, 59, 59>>}

\* Registers of a chip that was never set: 01/01/00 00:00:00 with the
\* clock-halt bit (0x80) in the seconds register.
PowerOnRegs == <<128, 0, 0, 1, 1, 1, 0>>

\* Registers of a chip that holds 2022-01-02 03:04:05.
RunningRegs == <<5, 4, 3, 7, 2, 1, 34>>

ChipContents == {PowerOnRegs, RunningRegs}

\* Register bytes (seconds, minutes, hours, day-of-week, day-of-month,
\* month, year) handed to process_data directly.
SimBytes ==
    { <<48, 21, 16, 3, 4, 7, 35>>,      \* 2023-07-04 10:15:30
      <<48, 21, 16, 5, 4, 7, 35>>,      \* the same, another day of week
      <<89, 89, 35, 1, 49, 18, 80>>,    \* 2050-12-31 23:59:59
      <<0, 0, 0, 4, 41, 2, 36>>,        \* 2024-02-29 00:00:00
      <<0, 0, 0, 4, 41, 2, 35>>,        \* February 29 of 2023
      <<128, 0, 0, 1, 1, 1, 0>>,        \* clock-halt bit set: second 80
      <<0, 0, 36, 1, 1, 1, 0>>,         \* hour 24
      <<0, 0, 0, 1, 1, 26, 0>> }        \* month byte 0x1A

\* Buffers handed to process_data directly: a report as the bridge builds
\* it, one without the time stamp, a cut one, one with an extra element,
\* and an empty one.
SimBuffers ==
    {Framing \o b \o <<0>> : b \in SimBytes}
        \cup {Framing \o b : b \in SimBytes}
        \cup {Framing \o SubSeq(b, 1, 3) : b \in SimBytes}
        \cup {Framing \o b \o <<0, 0>> : b \in SimBytes}
        \cup {<<>>}

\* ------------------------------------------------------ driver methods

Returned(op, arg, ret) == [op |-> op, arg |-> arg, exc |-> "ok", ret |-> ret]

NoCodec == cv = None /\ cb = None /\ cd = None

NoAdjust == adjArg = None /\ adjPc = 0

\* A constructor that starts from a default timestamp instead of None.
InitDefaultDate ==
    /\ date = Some([year |-> 2000, month |-> 1, day |-> 1, hour |-> 0, minute |-> 0, second |-> 0])
    /\ start_time = None
    /\ bus = <<>>
    /\ served = 0
    /\ chip0 \in ChipContents
    /\ responses = <<>>
    /\ call = Returned("__init__", <<>>, None)
    /\ NoAdjust

\* __init__: the bridge is set up, both attributes are None.  The chip holds
\* whatever it held.
InitSession ==
    /\ date = None
    /\ start_time = None
    /\ bus = <<>>
    /\ served = 0
    /\ chip0 \in ChipContents
    /\ responses = <<>>
    /\ call = Returned("__init__", <<>>, None)
    /\ NoAdjust

Init == InitSession /\ NoCodec

\* get_date()
GetDate ==
    /\ call' = Returned("get_date", <<>>, date)
    /\ UNCHANGED <<date, start_time, bus, served, chip0, responses, adjArg, adjPc, cv, cb, cd>>

\* A request_time that forgets the stored timestamp while it waits.
RequestTimeClearing ==
    /\ Len(bus) < MaxBus
    /\ bus' = Append(bus, ReadReq)
    /\ date' = None
    /\ call' = Returned("request_time", <<>>, None)
    /\ UNCHANGED <<start_time, served, chip0, responses, adjArg, adjPc, cv, cb, cd>>

\* request_time()
RequestTime ==
    /\ Len(bus) < MaxBus
    /\ bus' = Append(bus, ReadReq)
    /\ call' = Returned("request_time", <<>>, None)
    /\ UNCHANGED <<date, start_time, served, chip0, responses, adjArg, adjPc, cv, cb, cd>>

\* write_time(hours, minutes, seconds)
WriteTime(hours, minutes, seconds) ==
    /\ Len(bus) + 3 <= MaxBus
    /\ bus' = bus \o WriteTimeReqs(hours, minutes, seconds)
    /\ call' = Returned("write_time", <<hours, minutes, seconds>>, None)
    /\ UNCHANGED <<date, start_time, served, chip0, responses, adjArg, adjPc, cv, cb, cd>>

\* write_date(day, month, year)
WriteDate(day, month, year) ==
    /\ Len(bus) + 3 <= MaxBus
    /\ bus' = bus \o WriteDateReqs(day, month, year)
    /\ call' = Returned("write_date", <<day, month, year>>, None)
    /\ UNCHANGED <<date, start_time, served, chip0, responses, adjArg, adjPc, cv, cb, cd>>

AdjustArg(dt) == <<dt.year, dt.month, dt.day, dt.hour, dt.minute, dt.second>>

\* adjust(dt), run without another caller in between
Adjust(dt) ==
    /\ Len(bus) + 6 <= MaxBus
    /\ bus' = bus \o AdjustReqs(dt)
    /\ call' = Returned("adjust", AdjustArg(dt), None)
    /\ UNCHANGED <<date, start_time, served, chip0, responses, adjArg, adjPc, cv, cb, cd>>

\* process_data(data), called by the bridge or directly
RunHandler(data) ==
    LET r == process_data(data, date, start_time) IN
    /\ date' = r.date
    /\ start_time' = r.start_time
    /\ call' = [op |-> "process_data", arg |-> data, exc |-> r.exc, ret |-> None]

\* process_data(data) called with a simulated report
ProcessDataCall(data) ==
    /\ RunHandler(data)
    /\ UNCHANGED <<bus, served, chip0, responses, adjArg, adjPc, cv, cb, cd>>

\* ---------------------------------------------------- bridge and chip steps

\* The chip applies the next request; a read produces a report.
Serve ==
    /\ served < Len(bus)
    /\ served' = served + 1
    /\ responses' =
          IF bus[served + 1].op = "read"
          THEN Append(responses, [req |-> served + 1,
                                  data |-> Report(bus[served + 1], Regs(served)),
                                  status |-> "pending"])
          ELSE responses
    /\ UNCHANGED <<date, start_time, bus, chip0, call, adjArg, adjPc, cv, cb, cd>>

\* The bridge calls the registered callback with the oldest report.
Deliver ==
    /\ Pending # {}
    /\ RunHandler(responses[FirstPending].data)
    /\ responses' = [responses EXCEPT ![FirstPending].status = "delivered"]
    /\ UNCHANGED <<bus, served, chip0, adjArg, adjPc, cv, cb, cd>>

\* The oldest report is lost; no callback runs for it.
Lose ==
    /\ Pending # {}
    /\ responses' = [responses EXCEPT ![FirstPending].status = "lost"]
    /\ UNCHANGED <<date, start_time, bus, served, chip0, call, adjArg, adjPc, cv, cb, cd>>

\* ------------------------------------------------- one caller, whole calls

Next ==
    \/ GetDate
    \/ RequestTime
    \/ \E t \in Times : WriteTime(t[1], t[2], t[3])
    \/ \E d \in Dates : WriteDate(d[1], d[2], d[3])
    \/ \E dt \in Stamps : Adjust(dt)
    \/ Serve
    \/ Deliver
    \/ Lose

Spec == Init /\ [][Next]_vars

\* ------------------------------------------- the handler on simulated reports

NextHandler ==
    \/ \E data \in SimBuffers : ProcessDataCall(data)
    \/ GetDate

SpecHandler == Init /\ [][NextHandler]_vars

\* --------------------------------------------- callers that interleave

\* adjust(dt) is entered: the six fields are read from dt.
AdjustBegin(dt) ==
    /\ adjArg = None
    /\ Len(bus) < MaxBus
    /\ adjArg' = Some(dt)
    /\ adjPc' = 0
    /\ UNCHANGED <<date, start_time, bus, served, chip0, responses, call, cv, cb, cd>>

\* The adjust in progress makes its next i2c_write call; after the sixth it
\* returns.
AdjustStep ==
    /\ adjArg # None
    /\ Len(bus) < MaxBus
    /\ bus' = Append(bus, AdjustReqs(adjArg[1])[adjPc + 1])
    /\ IF adjPc + 1 = 6
       THEN /\ adjArg' = None
            /\ adjPc' = 0
            /\ call' = Returned("adjust", AdjustArg(adjArg[1]), None)
       ELSE /\ adjPc' = adjPc + 1
            /\ UNCHANGED <<adjArg, call>>
    /\ UNCHANGED <<date, start_time, served, chip0, responses, cv, cb, cd>>

NextConc ==
    \/ \E dt \in Stamps : AdjustBegin(dt)
    \/ AdjustStep
    \/ RequestTime
    \/ Serve
    \/ Deliver
    \/ Lose

SpecConc == Init /\ [][NextConc]_vars

\* ------------------------------------------- the codec on a range of inputs

InitCodec ==
    /\ InitSession
    /\ cv \in {Some(v) : v \in 0..MaxIn}
    /\ cb = None
    /\ cd = None

\* dec_to_bcd(cv)
Encode ==
    /\ cv # None
    /\ cb = None
    /\ cb' = Some(dec_to_bcd(cv[1]))
    /\ UNCHANGED <<date, start_time, bus, served, chip0, responses, call, adjArg, adjPc, cv, cd>>

\* bcd_to_dec(dec_to_bcd(cv))
Decode ==
    /\ cb # None
    /\ cd = None
    /\ cd' = Some(bcd_to_dec(cb[1]))
    /\ UNCHANGED <<date, start_time, bus, served, chip0, responses, call, adjArg, adjPc, cv, cb>>

NextCodec ==
    \/ Encode
    \/ Decode
    \/ \E d \in Dates : cv # None /\ WriteDate(d[1], d[2], cv[1])

SpecCodec == InitCodec /\ [][NextCodec]_vars

\* ---------------------------------------------------------------- claims

\* The write request of one register byte to device 0x68, spelled out.
W(reg, val) == [op |-> "write", addr |-> 104, data |-> <<reg, val>>, cb |-> ""]

\* Tens digit in the high nibble, units digit in the low nibble.
Packed(v) == (v \div 10) * 16 + (v % 10)

\* C1: for every v in 0..99, dec_to_bcd(v) has the tens digit of v in its
\* high nibble and the units digit in its low nibble, and
\* bcd_to_dec(dec_to_bcd(v)) = v.
C1_RoundTrip ==
    (cv # None /\ cv[1] \in 0..99) =>
        /\ cb # None => /\ cb[1] \in 0..255
                        /\ cb[1] \div 16 = cv[1] \div 10
                        /\ cb[1] % 16 = cv[1] % 10
        /\ cd # None => cd[1] = cv[1]

C1_Witness == cv = Some(59) /\ cb = Some(89) /\ cd = Some(59)

\* C6: write_date(d, mo, y) writes to register 0x06 the BCD byte of
\* y mod 100: a byte in 0x00..0x99 with both nibbles at most 9 (2150 is
\* written as 0x50, 2023 as 0x23).
C6_YearByte ==
    /\ \A i \in DOMAIN bus :
          (bus[i].op = "write" /\ bus[i].data[1] = 6) =>
              /\ bus[i].data[2] \in 0..153
              /\ bus[i].data[2] \div 16 <= 9
              /\ bus[i].data[2] % 16 <= 9
    /\ call.op = "write_date" =>
          /\ bus[Len(bus)] = W(6, Packed(call.arg[3] % 100))
          /\ call.arg[3] = 2150 => bus[Len(bus)].data = <<6, 80>>
          /\ call.arg[3] = 2023 => bus[Len(bus)].data = <<6, 35>>

C6_Witness ==
    /\ call.op = "write_date"
    /\ call.arg[3] = 2150
    /\ bus[Len(bus)].data = <<6, 80>>

\* Register bytes (seconds, minutes, hours, day-of-week, day-of-month, month,
\* year) that encode a valid calendar value, with that value.
DecodeCases ==
    { << <<48, 21, 16, 3, 4, 7, 35>>,
         [year |-> 2023, month |-> 7, day |-> 4, hour |-> 10, minute |-> 15, second |-> 30] >>,
      << <<48, 21, 16, 5, 4, 7, 35>>,
         [year |-> 2023, month |-> 7, day |-> 4, hour |-> 10, minute |-> 15, second |-> 30] >>,
      << <<89, 89, 35, 1, 49, 18, 80>>,
         [year |-> 2050, month |-> 12, day |-> 31, hour |-> 23, minute |-> 59, second |-> 59] >>,
      << <<0, 0, 0, 4, 41, 2, 36>>,
         [year |-> 2024, month |-> 2, day |-> 29, hour |-> 0, minute |-> 0, second |-> 0] >> }

\* C2 (as amended): when process_data receives the five framing fields, the
\* seven BCD bytes of a valid calendar value and the report's time stamp as
\* a thirteenth element, it stores the timestamp with year 2000 + decoded
\* year and the decoded month, day, hour, minute and second, whatever the
\* day-of-week byte; get_date returns the stored value.
C2_DecodesReport ==
    /\ \A c \in DecodeCases :
          (call.op = "process_data" /\ call.arg = Framing \o c[1] \o <<0>>) =>
              (call.exc = "ok" /\ date = Some(c[2]))
    /\ call.op = "get_date" => call.ret = date

C2_Witness ==
    /\ call.op = "process_data"
    /\ call.arg = Framing \o <<48, 21, 16, 3, 4, 7, 35>> \o <<0>>
    /\ date = Some(TS1)

\* C2 (as stated): a buffer of the five framing fields followed by the seven
\* BCD bytes, and nothing else, is decoded and stored.
C2_DecodesTwelve ==
    \A c \in DecodeCases :
        (call.op = "process_data" /\ call.arg = Framing \o c[1]) =>
            (call.exc = "ok" /\ date = Some(c[2]))

\* A buffer that lacks one of the five framing fields and seven data bytes,
\* or whose fields are no calendar value.
Malformed(data) == Len(data) < 12 \/ ~datetime_ok(Fields(data))

WellFormed(data) == Len(data) = 13 /\ datetime_ok(Fields(data))

\* C7: process_data on a malformed response raises and leaves date and
\* start_time as they were; a well-formed response after a failure is
\* decoded and stored.
C7_MalformedRejected ==
    [][ call'.op = "process_data" =>
          /\ Malformed(call'.arg) =>
                /\ call'.exc = "ValueError"
                /\ date' = date
                /\ start_time' = start_time
          /\ (call.exc = "ValueError" /\ WellFormed(call'.arg)) =>
                /\ call'.exc = "ok"
                /\ date' = Some(Fields(call'.arg)) ]_vars

C7_Witness ==
    /\ call.op = "process_data"
    /\ call.exc = "ValueError"
    /\ Len(call.arg) < 12
    /\ date = Some(TS1)
    /\ start_time # None
    /\ start_time # date

\* The writes the claims ascribe to write_date and to write_time.
DateWrites(day, month, year) ==
    << W(4, Packed(day)), W(5, Packed(month)), W(6, Packed(year % 100)) >>

TimeWrites(hours, minutes, seconds) ==
    << W(0, Packed(seconds)), W(1, Packed(minutes)), W(2, Packed(hours)) >>

\* The writes of adjust for the argument (year, month, day, hour, minute, second).
SixWrites(a) == DateWrites(a[3], a[2], a[1]) \o TimeWrites(a[4], a[5], a[6])

\* C3: write_date dispatches exactly the writes (0x04, bcd(d)), (0x05,
\* bcd(mo)), (0x06, bcd(y mod 100)), write_time exactly (0x00, bcd(s)),
\* (0x01, bcd(mi)), (0x02, bcd(h)), and adjust the six of them in that
\* order, each to device 0x68 with one (register, value) pair; nothing else
\* is dispatched and register 0x03 is never written.
C3_SixWrites ==
    [][ /\ (bus' # bus /\ call'.op = "write_date") =>
              bus' = bus \o DateWrites(call'.arg[1], call'.arg[2], call'.arg[3])
        /\ (bus' # bus /\ call'.op = "write_time") =>
              bus' = bus \o TimeWrites(call'.arg[1], call'.arg[2], call'.arg[3])
        /\ (bus' # bus /\ call'.op = "adjust") =>
              bus' = bus \o SixWrites(call'.arg)
        /\ \A i \in DOMAIN bus' :
              bus'[i].op = "write" => (Len(bus'[i].data) = 2 /\ bus'[i].data[1] # 3) ]_vars

C3_Witness ==
    /\ call.op = "write_time"
    /\ call.arg = <<10, 15, 30>>
    /\ bus = << W(4, 4), W(5, 7), W(6, 35), W(0, 48), W(1, 21), W(2, 16) >>

\* The reports whose callback ran and stored a timestamp.
Decoded ==
    {i \in DOMAIN responses :
        responses[i].status = "delivered" /\ WellFormed(responses[i].data)}

Lowest(S) == CHOOSE i \in S : \A j \in S : i <= j

Highest(S) == CHOOSE i \in S : \A j \in S : i >= j

\* C4: the first successful run of process_data sets date and start_time to
\* the decoded value; later successful runs update date only, so start_time
\* is unset or the value of the first successful read.
C4_FirstObservedOnce ==
    IF Decoded = {}
    THEN start_time = None /\ date = None
    ELSE /\ start_time = Some(Fields(responses[Lowest(Decoded)].data))
         /\ date = Some(Fields(responses[Highest(Decoded)].data))

C4_Witness ==
    /\ Cardinality(Decoded) >= 2
    /\ start_time # None
    /\ date # None
    /\ date # start_time

\* C5: as long as no completion handler has decoded a response, whatever
\* requests and writes were made, date is None and get_date() returns None.
C5_UnsetBeforeRead ==
    Decoded = {} =>
        /\ date = None
        /\ call.op = "get_date" => call.ret = None

C5_Witness ==
    /\ call.op = "get_date"
    /\ call.ret = None
    /\ \E i \in DOMAIN bus : bus[i].op = "write"
    /\ \E i \in DOMAIN responses : responses[i].status = "delivered"

\* What the chip gives back of a timestamp: the year within the century.
Readback(dt) == [dt EXCEPT !.year = 2000 + (dt.year % 100)]

StampOfArg(a) ==
    [year |-> a[1], month |-> a[2], day |-> a[3], hour |-> a[4], minute |-> a[5], second |-> a[6]]

\* The last seven requests are the six writes of adjust(dt) and a read, and
\* the callback of that read was the last call.
AdjustedThenRead(dt) ==
    /\ Len(bus) >= 7
    /\ SubSeq(bus, Len(bus) - 6, Len(bus)) = SixWrites(AdjustArg(dt)) \o <<ReadReq>>
    /\ call.op = "process_data"
    /\ \E i \in DOMAIN responses :
          responses[i].req = Len(bus) /\ responses[i].status = "delivered"

\* C8: adjust(dt), then a request_time whose read the chip serves after the
\* six writes: the stored timestamp has dt's month, day, hour, minute and
\* second and the year 2000 + (dt.year mod 100); it is dt exactly when
\* dt.year is in 2000..2099.
C8_AdjustReadBack ==
    \A dt \in Stamps :
        AdjustedThenRead(dt) =>
            /\ call.exc = "ok"
            /\ date = Some(Readback(dt))
            /\ (date = Some(dt)) <=> (dt.year \in 2000..2099)

C8_Witness ==
    /\ AdjustedThenRead(TS2)
    /\ date = Some([year |-> 2050, month |-> 12, day |-> 31, hour |-> 23, minute |-> 59, second |-> 59])

\* C9: request_time, write_time, write_date and adjust leave date and
\* start_time unchanged and return nothing; request_time dispatches one read
\* of 7 bytes from register 0x00 of device 0x68 with process_data as
\* callback; date and start_time change only in a step in which the
\* callback of a pending report runs, so a lost report changes nothing.
C9_OnlyHandlerStores ==
    [][ /\ bus' # bus =>
              /\ date' = date
              /\ start_time' = start_time
              /\ call'.op \in {"request_time", "write_time", "write_date", "adjust"}
              /\ call'.ret = None
        /\ (bus' # bus /\ call'.op = "request_time") =>
              bus' = Append(bus, [op |-> "read", addr |-> 104, data |-> <<0, 7>>,
                                  cb |-> "process_data"])
        /\ (date' # date \/ start_time' # start_time) =>
              /\ call'.op = "process_data"
              /\ \E i \in DOMAIN responses :
                    /\ responses[i].status = "pending"
                    /\ responses'[i].status = "delivered" ]_vars

C9_Witness ==
    /\ call.op = "get_date"
    /\ call.ret = date
    /\ date # None
    /\ responses # <<>>
    /\ responses[Len(responses)].status = "lost"

\* The chip's registers read as a timestamp, valid or not.
RawStamp(regs) == Fields(Framing \o regs \o <<0>>)

\* The timestamp the chip shows when the first j writes of adjust(dt) are
\* applied to a chip that held old.
Mix(old, dt, j) ==
    [ day    |-> IF j >= 1 THEN dt.day ELSE old.day,
      month  |-> IF j >= 2 THEN dt.month ELSE old.month,
      year   |-> IF j >= 3 THEN 2000 + (dt.year % 100) ELSE old.year,
      second |-> IF j >= 4 THEN dt.second ELSE old.second,
      minute |-> IF j >= 5 THEN dt.minute ELSE old.minute,
      hour   |-> IF j >= 6 THEN dt.hour ELSE old.hour ]

IsWrite(req) == req.op = "write"

\* How many of the first k requests are writes.
WritesIn(k) == Len(SelectSeq(SubSeq(bus, 1, k), IsWrite))

\* The writes dispatched so far are the first writes of one adjust(dt).
FirstAdjust(dt) ==
    LET w == SelectSeq(bus, IsWrite) IN
    /\ Len(w) <= 6
    /\ w = SubSeq(SixWrites(AdjustArg(dt)), 1, Len(w))

\* C10: adjust is not atomic.  It dispatches its six writes one by one, the
\* date before the time; while the chip has applied j of them it holds the fields of the first j writes from dt
\* and the others as before (after the three of write_date: new day, month,
\* year, old hour, minute, second), and a read dispatched after j writes
\* makes process_data store that mixture.
C10_AdjustNotAtomic ==
    /\ (adjArg # None /\ WritesIn(Len(bus)) = adjPc) => FirstAdjust(adjArg[1])
    /\ \A dt \in Stamps :
        FirstAdjust(dt) =>
            /\ RawStamp(Regs(served)) = Mix(RawStamp(chip0), dt, WritesIn(served))
            /\ Decoded # {} =>
                  date = Some(Mix(RawStamp(chip0), dt,
                                  WritesIn(responses[Highest(Decoded)].req)))

\* A read between the third and the fourth write of adjust(2023-07-04
\* 10:15:30) on a chip that held 2022-01-02 03:04:05.
C10_Witness ==
    /\ chip0 = RunningRegs
    /\ FirstAdjust(TS1)
    /\ WritesIn(served) = 3
    /\ Regs(served) = <<5, 4, 3, 7, 4, 7, 35>>
    /\ date = Some([year |-> 2023, month |-> 7, day |-> 4, hour |-> 3, minute |-> 4, second |-> 5])
    /\ date # Some(RawStamp(chip0))
    /\ date # Some(TS1)

====
